---- MODULE Spec2Model ----
(***************************************************************************)
(* A model of performance_monitor.py: the three report parsers, the report *)
(* collector analyze_all_reports, the dashboard renderer, the JSON         *)
(* exporter and main.                                                      *)
(*                                                                         *)
(* A report text is a sequence of tokens.  A token is one character, or    *)
(* one of the literal labels the parsers' regular expressions are anchored *)
(* to (a label is matched as a whole, as a literal is by the re module).   *)
(*                                                                         *)
(* A Python value is a record with a tag t:                                *)
(*   [t |-> "None"], [t |-> "int", m], [t |-> "float", m, e],              *)
(*   [t |-> "str", s], [t |-> "dict", items], where a float m * 10^-e is   *)
(* kept in lowest terms (m has no trailing zero unless e = 0), so that     *)
(* numeric equality is equality of records.  The binary rounding of a      *)
(* double is not modelled: the decimal strings met here are short.         *)
(*                                                                         *)
(* Failures of the file system (a directory that cannot be made, a file    *)
(* that cannot be read or written) are not modelled: the exceptions of the *)
(* model are those the program's own statements raise on the data.         *)
(***************************************************************************)
EXTENDS Integers, Sequences, FiniteSets, TLC

VARIABLES
    which,        \* the parser applied in the parsing specification
    content,      \* the text of the report file given to that parser
    parsed,       \* what the parser did: a returned record or a raised error
    reports_dir,  \* the input directory: file name -> file text
    json_output,  \* args.json_output: the JSON path is given or not
    pc,           \* main's position
    results,      \* the AggregatedResult of analyze_all_reports
    written,      \* the artifacts written so far: file name -> what it holds
    printed,      \* the lines printed so far
    error         \* the unhandled exception that ended the run, or "none"

vars == <<which, content, parsed, reports_dir, json_output, pc, results,
          written, printed, error>>

parseVars == <<which, content, parsed>>
mainVars == <<reports_dir, json_output, pc, results, written, printed, error>>

(***************************************************************************)
(* Bounds of the model.                                                    *)
(***************************************************************************)
\* the longest timing or power report text, in tokens
MaxLen == 4
\* the longest utilization report text, in chunks (a label or a table cell)
MaxChunks == 5
\* the most files the input directory holds
MaxFiles == 3

(***************************************************************************)
(* Python values.                                                          *)
(***************************************************************************)
None == [t |-> "None"]
PyInt(n) == [t |-> "int", m |-> n]
PyFloat(m, e) == [t |-> "float", m |-> m, e |-> e]
PyStr(s) == [t |-> "str", s |-> s]
PyDict(items) == [t |-> "dict", items |-> items]

\* a function's outcome: it returns a value or raises an exception
Returned(v) == [exc |-> "none", ret |-> v]
Raised(e) == [exc |-> e, ret |-> None]
\* no outcome yet
Pending == [exc |-> "pending", ret |-> None]

\* d[key] of a dict kept as a sequence of items, in insertion order
RECURSIVE Lookup(_, _, _)
Lookup(items, key, i) ==
    IF i > Len(items) THEN None
    ELSE IF items[i].k = key THEN items[i].v
    ELSE Lookup(items, key, i + 1)

Get(d, key) == Lookup(d.items, key, 1)
Keys(d) == [i \in 1..Len(d.items) |-> d.items[i].k]
Values(d) == [i \in 1..Len(d.items) |-> d.items[i].v]
HasKey(d, key) == \E i \in 1..Len(d.items) : d.items[i].k = key
Item(key, v) == [k |-> key, v |-> v]

(***************************************************************************)
(* Character classes of the regular expressions.                           *)
(***************************************************************************)
Digits == {"0", "1", "2", "3", "4", "5", "6", "7", "8", "9"}
Space == {" ", "\n", "\t"}
SlackChars == Digits \cup {"-", "."}
RealChars == Digits \cup {"."}

DigitVal(c) ==
    CASE c = "0" -> 0 [] c = "1" -> 1 [] c = "2" -> 2 [] c = "3" -> 3
      [] c = "4" -> 4 [] c = "5" -> 5 [] c = "6" -> 6 [] c = "7" -> 7
      [] c = "8" -> 8 [] c = "9" -> 9

DigitChar(n) ==
    CASE n = 0 -> "0" [] n = 1 -> "1" [] n = 2 -> "2" [] n = 3 -> "3"
      [] n = 4 -> "4" [] n = 5 -> "5" [] n = 6 -> "6" [] n = 7 -> "7"
      [] n = 8 -> "8" [] n = 9 -> "9"

(***************************************************************************)
(* re.search.  A pattern is a sequence of elements: a literal token, a     *)
(* starred class (whitespace, any number), or a plussed class (one or     *)
(* more characters of a set such as digits, '-' and '.'), captured or      *)
(* not.  Every repetition in the source's patterns is followed by an       *)
(* element that cannot start with a character of the repeated class (or by *)
(* the end of the pattern), so the greedy run is the only run that lets    *)
(* the rest match and no backtracking is modelled.                         *)
(***************************************************************************)
Lit(s) == [k |-> "lit", s |-> s]
Star(cls) == [k |-> "star", c |-> cls]
Plus(cls) == [k |-> "plus", c |-> cls, cap |-> FALSE]
Cap(cls) == [k |-> "plus", c |-> cls, cap |-> TRUE]

NoMatch == [ok |-> FALSE, groups |-> <<>>]

\* the first position from i on whose token is not in cls
RECURSIVE RunEnd(_, _, _)
RunEnd(text, i, cls) ==
    IF i <= Len(text) /\ text[i] \in cls THEN RunEnd(text, i + 1, cls) ELSE i

RECURSIVE MatchAt(_, _, _, _, _)
MatchAt(text, i, pat, k, groups) ==
    IF k > Len(pat) THEN [ok |-> TRUE, groups |-> groups]
    ELSE LET p == pat[k] IN
      CASE p.k = "lit" ->
             IF i <= Len(text) /\ text[i] = p.s
             THEN MatchAt(text, i + 1, pat, k + 1, groups)
             ELSE NoMatch
        [] p.k = "star" ->
             MatchAt(text, RunEnd(text, i, p.c), pat, k + 1, groups)
        [] p.k = "plus" ->
             LET j == RunEnd(text, i, p.c) IN
             IF j = i THEN NoMatch
             ELSE MatchAt(text, j, pat, k + 1,
                          IF p.cap THEN Append(groups, SubSeq(text, i, j - 1))
                          ELSE groups)

\* the leftmost match of pat in text
re_search(pat, text) ==
    LET starts == {i \in 1..Len(text) : MatchAt(text, i, pat, 1, <<>>).ok} IN
    IF starts = {} THEN NoMatch
    ELSE MatchAt(text, CHOOSE i \in starts : \A j \in starts : i <= j,
                 pat, 1, <<>>)

(***************************************************************************)
(* int() and float() of a captured string.                                 *)
(***************************************************************************)
RECURSIVE DigitsValue(_, _)
DigitsValue(s, acc) ==
    IF s = <<>> THEN acc ELSE DigitsValue(Tail(s), 10 * acc + DigitVal(Head(s)))

RECURSIVE StripZeros(_)
StripZeros(s) ==
    IF s # <<>> /\ s[Len(s)] = "0" THEN StripZeros(SubSeq(s, 1, Len(s) - 1))
    ELSE s

Count(s, c) == Cardinality({i \in 1..Len(s) : s[i] = c})

\* what follows an optional leading minus sign
Unsigned(s) == IF s # <<>> /\ s[1] = "-" THEN Tail(s) ELSE s

\* float(s) succeeds, for s made of digits, '-' and '.': an optional sign,
\* then digits with at most one point and at least one digit
FloatConvertible(s) ==
    LET u == Unsigned(s) IN
    /\ Count(u, "-") = 0
    /\ Count(u, ".") <= 1
    /\ \E i \in 1..Len(u) : u[i] \in Digits

\* int(s) succeeds, for s made of digits, '-' and '.': an optional sign, then digits
IntConvertible(s) ==
    LET u == Unsigned(s) IN u # <<>> /\ \A i \in 1..Len(u) : u[i] \in Digits

py_int(s) ==
    LET n == DigitsValue(Unsigned(s), 0) IN
    PyInt(IF s[1] = "-" THEN -n ELSE n)

py_float(s) ==
    LET u == Unsigned(s)
        dots == {i \in 1..Len(u) : u[i] = "."}
        d == IF dots = {} THEN Len(u) + 1 ELSE CHOOSE i \in dots : TRUE
        frac == StripZeros(SubSeq(u, d + 1, Len(u)))
        n == DigitsValue(SubSeq(u, 1, d - 1) \o frac, 0)
    IN PyFloat(IF s[1] = "-" THEN -n ELSE n, Len(frac))

(***************************************************************************)
(* The step every parser repeats: if the pattern matched, convert the      *)
(* captured group and store it; otherwise the field keeps its default.     *)
(* The conversion raises ValueError when the capture is no number.         *)
(***************************************************************************)
float_group_swallow(m, g, default) ==
    IF ~m.ok THEN Returned(default)
    ELSE IF FloatConvertible(m.groups[g]) THEN Returned(py_float(m.groups[g]))
    ELSE Returned(default)

float_group_zero(m, g, default) ==
    IF ~m.ok THEN Returned(PyInt(0))
    ELSE IF FloatConvertible(m.groups[g]) THEN Returned(py_float(m.groups[g]))
    ELSE Raised("ValueError")

float_group(m, g, default) ==
    IF ~m.ok THEN Returned(default)
    ELSE IF FloatConvertible(m.groups[g]) THEN Returned(py_float(m.groups[g]))
    ELSE Raised("ValueError")

int_group(m, g, default) ==
    IF ~m.ok THEN Returned(default)
    ELSE IF IntConvertible(m.groups[g]) THEN Returned(py_int(m.groups[g]))
    ELSE Raised("ValueError")

\* the first exception among the outcomes, in statement order
RECURSIVE FirstRaised(_, _)
FirstRaised(outs, i) ==
    IF i > Len(outs) THEN "none"
    ELSE IF outs[i].exc # "none" THEN outs[i].exc
    ELSE FirstRaised(outs, i + 1)

(***************************************************************************)
(* parse_timing_report                                                     *)
(***************************************************************************)
SlackPattern_unsigned(label) == <<Lit(label), Star(Space), Cap(RealChars)>>

SlackPattern(label) == <<Lit(label), Star(Space), Cap(SlackChars)>>
EndpointsPattern == <<Lit("Failing Endpoints:"), Star(Space), Cap(Digits)>>

\* the record once the four extractions have run: the record, or the first
\* exception raised
timing_record(wns, tns, whs, eps) ==
    IF FirstRaised(<<wns, tns, whs, eps>>, 1) # "none"
    THEN Raised(FirstRaised(<<wns, tns, whs, eps>>, 1))
    ELSE Returned(PyDict(<<Item("wns", wns.ret), Item("tns", tns.ret),
                           Item("whs", whs.ret), Item("ths", None),
                           Item("failing_endpoints", eps.ret)>>))

parse_timing_report(text) ==
    timing_record(
        float_group(re_search(SlackPattern("WNS(ns):"), text), 1, None),
        float_group(re_search(SlackPattern("TNS(ns):"), text), 1, None),
        float_group(re_search(SlackPattern("WHS(ns):"), text), 1, None),
        int_group(re_search(EndpointsPattern, text), 1, PyInt(0)))

(***************************************************************************)
(* parse_utilization_report                                                *)
(***************************************************************************)
RowPattern(label) ==
    <<Lit(label), Star(Space), Lit("|"), Star(Space), Cap(Digits),
      Star(Space), Lit("|"), Star(Space), Plus(Digits),
      Star(Space), Lit("|"), Star(Space), Cap(Digits),
      Star(Space), Lit("|"), Star(Space), Cap(RealChars)>>

\* one resource's entry once its three conversions have run
resource_entry(used, available, utilization) ==
    IF FirstRaised(<<used, available, utilization>>, 1) # "none"
    THEN Raised(FirstRaised(<<used, available, utilization>>, 1))
    ELSE Returned(PyDict(<<Item("used", used.ret),
                           Item("available", available.ret),
                           Item("utilization", utilization.ret)>>))

\* the three conversions of a row's match m
resource_match(m) ==
    resource_entry(int_group(m, 1, PyInt(0)), int_group(m, 2, PyInt(0)),
                   float_group(m, 3, PyInt(0)))

\* one resource's entry: its three fields, or the exception raised on the way
parse_resource(label, text) == resource_match(re_search(RowPattern(label), text))

\* the record once the four resources have been read
util_record(lut, ff, bram, dsp) ==
    IF FirstRaised(<<lut, ff, bram, dsp>>, 1) # "none"
    THEN Raised(FirstRaised(<<lut, ff, bram, dsp>>, 1))
    ELSE Returned(PyDict(<<Item("lut", lut.ret), Item("ff", ff.ret),
                           Item("bram", bram.ret), Item("dsp", dsp.ret)>>))

parse_utilization_report(text) ==
    util_record(parse_resource("CLB LUTs", text),
                parse_resource("CLB Registers", text),
                parse_resource("Block RAM Tile", text),
                parse_resource("DSPs", text))

(***************************************************************************)
(* parse_power_report                                                      *)
(***************************************************************************)
PowerPattern(label) ==
    <<Lit(label), Star(Space), Lit("|"), Star(Space), Cap(RealChars)>>

\* the record once the three extractions have run
power_record(total, dynamic, static) ==
    IF FirstRaised(<<total, dynamic, static>>, 1) # "none"
    THEN Raised(FirstRaised(<<total, dynamic, static>>, 1))
    ELSE Returned(PyDict(<<Item("total_power", total.ret),
                           Item("dynamic_power", dynamic.ret),
                           Item("static_power", static.ret),
                           Item("confidence", PyStr("Low"))>>))

parse_power_report(text) ==
    power_record(
        float_group(re_search(PowerPattern("Total On-Chip Power (W)"), text),
                    1, PyInt(0)),
        float_group(re_search(PowerPattern("Dynamic (W)"), text), 1, PyInt(0)),
        float_group(re_search(PowerPattern("Device Static (W)"), text),
                    1, PyInt(0)))

\* the parser of a category
Parser(category, text) ==
    CASE category = "timing" -> parse_timing_report(text)
      [] category = "utilization" -> parse_utilization_report(text)
      [] category = "power" -> parse_power_report(text)

(***************************************************************************)
(* analyze_all_reports.  A file name is a sequence of parts, the keywords  *)
(* and suffixes each one part.  Path.glob lists the names that match in    *)
(* the order the file system gives them, which is any order.               *)
(***************************************************************************)
\* fnmatch of a name against a pattern of parts, "*" matching any parts
RECURSIVE fnmatch(_, _)
fnmatch(name, pattern) ==
    IF pattern = <<>> THEN name = <<>>
    ELSE IF Head(pattern) = "*"
         THEN \/ fnmatch(name, Tail(pattern))
              \/ name # <<>> /\ fnmatch(Tail(name), pattern)
    ELSE name # <<>> /\ Head(name) = Head(pattern)
                     /\ fnmatch(Tail(name), Tail(pattern))

GlobPattern_any_suffix(keyword) == <<"*", keyword, "*">>

GlobPattern(keyword) == <<"*", keyword, "*", ".rpt">>

glob(dir, keyword) == {n \in DOMAIN dir : fnmatch(n, GlobPattern(keyword))}

Suffixes == {".rpt", ".txt", ".bak"}

\* Path.stem: the name without its last suffix
stem(name) ==
    IF Len(name) > 1 /\ name[Len(name)] \in Suffixes
    THEN SubSeq(name, 1, Len(name) - 1) ELSE name

\* the orders a set of files can be listed in
Orders(S) ==
    {o \in [1..Cardinality(S) -> S] :
         \A i, j \in 1..Cardinality(S) : o[i] = o[j] => i = j}

\* d[key] = v
DictSet(d, key, v) ==
    IF HasKey(d, key)
    THEN PyDict([i \in 1..Len(d.items) |->
                    IF d.items[i].k = key THEN Item(key, v) ELSE d.items[i]])
    ELSE PyDict(Append(d.items, Item(key, v)))

\* the loop over one category's files: the mapping, or the first exception
RECURSIVE parse_files(_, _, _, _, _)
\* the loop's step for file i, r being what the parser did with it
parse_file(category, dir, files, i, acc, r) ==
    IF r.exc # "none" THEN Raised(r.exc)
    ELSE parse_files(category, dir, files, i + 1,
                     DictSet(acc, stem(files[i]), r.ret))

parse_files(category, dir, files, i, acc) ==
    IF i > Len(files) THEN Returned(acc)
    ELSE parse_file(category, dir, files, i, acc,
                    Parser(category, dir[files[i]]))

\* results once the three loops have run
aggregated(now, timing, utilization, power) ==
    IF FirstRaised(<<timing, utilization, power>>, 1) # "none"
    THEN Raised(FirstRaised(<<timing, utilization, power>>, 1))
    ELSE Returned(PyDict(<<Item("timestamp", PyStr(now)),
                           Item("timing", timing.ret),
                           Item("utilization", utilization.ret),
                           Item("power", power.ret)>>))

analyze_all_reports(dir, now, timing_files, util_files, power_files) ==
    aggregated(now,
               parse_files("timing", dir, timing_files, 1, PyDict(<<>>)),
               parse_files("utilization", dir, util_files, 1, PyDict(<<>>)),
               parse_files("power", dir, power_files, 1, PyDict(<<>>)))

(***************************************************************************)
(* Comparisons of Python numbers.  Ordering None against a number raises   *)
(* TypeError.                                                              *)
(***************************************************************************)
RECURSIVE Pow10(_)
Pow10(e) == IF e = 0 THEN 1 ELSE 10 * Pow10(e - 1)

Exp(v) == IF v.t = "float" THEN v.e ELSE 0

\* v < n, for a number v and an integer n
Less(v, n) == v.m < n * Pow10(Exp(v))

\* v == n
Equals(v, n) == v.m = n * Pow10(Exp(v))

(***************************************************************************)
(* _plot_timing_analysis: nothing for an empty mapping; otherwise four bar *)
(* charts, one bar per report, saved as timing_analysis.png.               *)
(***************************************************************************)
bar_color(w) == IF Less(w, 0) THEN "red" ELSE "green"

eps_color(f) == IF ~Less(f, 0) /\ ~Equals(f, 0) THEN "red" ELSE "green"

Bars(timing_data, field) ==
    [i \in 1..Len(timing_data.items) |->
        [report |-> timing_data.items[i].k,
         value |-> Get(timing_data.items[i].v, field),
         color |-> IF field = "failing_endpoints"
                   THEN eps_color(Get(timing_data.items[i].v, field))
                   ELSE bar_color(Get(timing_data.items[i].v, field))]]

SomeNone(timing_data, field) ==
    \E i \in 1..Len(timing_data.items) :
        Get(timing_data.items[i].v, field) = None

Nothing == [exc |-> "none", saved |-> FALSE, body |-> <<>>]
Saved(body) == [exc |-> "none", saved |-> TRUE, body |-> body]
Failed(e) == [exc |-> e, saved |-> FALSE, body |-> <<>>]

plot_timing_analysis_always(timing_data) ==
    IF \E f \in {"wns", "tns", "whs"} : SomeNone(timing_data, f)
    THEN Failed("TypeError")
    ELSE Saved([wns |-> Bars(timing_data, "wns"),
                tns |-> Bars(timing_data, "tns"),
                whs |-> Bars(timing_data, "whs"),
                failing_endpoints |->
                    Bars(timing_data, "failing_endpoints")])

plot_timing_analysis(timing_data) ==
    IF timing_data.items = <<>> THEN Nothing
    ELSE IF \E f \in {"wns", "tns", "whs"} : SomeNone(timing_data, f)
    THEN Failed("TypeError")
    ELSE Saved([wns |-> Bars(timing_data, "wns"),
                tns |-> Bars(timing_data, "tns"),
                whs |-> Bars(timing_data, "whs"),
                failing_endpoints |->
                    Bars(timing_data, "failing_endpoints")])

(***************************************************************************)
(* _plot_utilization and _plot_power_analysis draw pie charts of the last  *)
(* report of the mapping.  What matplotlib's pie does with a negative      *)
(* wedge or with wedges that sum to zero is the library's business and     *)
(* differs between its versions: it may raise ValueError or draw; the      *)
(* model lets either happen (pie_raises).                                  *)
(***************************************************************************)
Latest(d) == d.items[Len(d.items)].v

\* the wedges [a, b] are negative somewhere or all zero
BadWedges(a, b) == a < 0 \/ b < 0 \/ (a = 0 /\ b = 0)

ResourceNames == <<"lut", "ff", "bram", "dsp">>

UtilWedges(util, resource) ==
    <<Get(Get(util, resource), "used").m,
      Get(Get(util, resource), "available").m
          - Get(Get(util, resource), "used").m>>

plot_utilization(util_data, pie_raises) ==
    IF util_data.items = <<>> THEN Nothing
    ELSE LET util == Latest(util_data) IN
         IF pie_raises /\ \E i \in 1..4 :
                BadWedges(UtilWedges(util, ResourceNames[i])[1],
                          UtilWedges(util, ResourceNames[i])[2])
         THEN Failed("ValueError")
         ELSE Saved([report |-> util_data.items[Len(util_data.items)].k,
                     pies |-> [i \in 1..4 |->
                                  UtilWedges(util, ResourceNames[i])]])

plot_power_analysis(power_data, pie_raises) ==
    IF power_data.items = <<>> THEN Nothing
    ELSE LET power == Latest(power_data) IN
         IF pie_raises /\ BadWedges(Get(power, "dynamic_power").m,
                                    Get(power, "static_power").m)
         THEN Failed("ValueError")
         ELSE Saved([report |-> power_data.items[Len(power_data.items)].k,
                     pie |-> <<Get(power, "dynamic_power"),
                               Get(power, "static_power")>>,
                     trend |-> [i \in 1..Len(power_data.items) |->
                                   power_data.items[i].v]])

(***************************************************************************)
(* The inputs of a run of main: the files of the reports directory and the *)
(* clock.                                                                  *)
(***************************************************************************)
TimingFailing ==
    <<"WNS(ns):", " ", "-", ".", "5", "\n", "TNS(ns):", " ", "0", "\n",
      "WHS(ns):", " ", "2", ".", "5", "\n", "Failing Endpoints:", " ", "3">>
TimingMet ==
    <<"WNS(ns):", "0", ".", "0", "TNS(ns):", "1", "0", "WHS(ns):", "-", "1",
      "Failing Endpoints:", "0">>
TimingNoHold == <<"WNS(ns):", " ", "5", "\n", "TNS(ns):", " ", "5">>
TimingMalformed == <<"WNS(ns):", " ", "-", "\n", "TNS(ns):", " ", "5">>
Row(label, used, available, pct) ==
    <<label, " ", "|", " ">> \o used \o <<" ", "|", " ", "0", " ", "|", " ">>
        \o available \o <<" ", "|", " ">> \o pct \o <<"\n">>
UtilThresholds ==
    Row("CLB LUTs", <<"7">>, <<"9">>, <<"7", "9", ".", "9">>)
      \o Row("CLB Registers", <<"8">>, <<"9">>, <<"8", "0", ".", "0", "0">>)
      \o Row("Block RAM Tile", <<"9">>, <<"9">>, <<"9", "4", ".", "9">>)
      \o Row("DSPs", <<"9">>, <<"9">>, <<"9", "5">>)
UtilOverfull ==
    Row("CLB LUTs", <<"9">>, <<"5">>, <<"1", "8", "0", ".", "0">>)
PowerReport ==
    <<"Total On-Chip Power (W)", " ", "|", " ", "2", ".", "5", "\n",
      "Dynamic (W)", " ", "|", " ", "2", "\n",
      "Device Static (W)", " ", "|", " ", ".", "5">>
Blank == <<>>

\* the texts a file of the given name is given in the model
ContentsFor(name) ==
    IF \E i \in 1..Len(name) : name[i] = "utilization"
    THEN {UtilThresholds, UtilOverfull, Blank}
    ELSE IF \E i \in 1..Len(name) : name[i] = "power"
    THEN {PowerReport, TimingFailing}
    ELSE IF name[1] = "timing"
    THEN {TimingFailing, TimingMet, TimingNoHold, TimingMalformed, Blank}
    ELSE {TimingMet}

FileNames ==
    {<<"timing", ".rpt">>, <<"synth_", "timing", ".rpt">>,
     <<"timing", "_", "power", ".rpt">>, <<"utilization", ".rpt">>,
     <<"power", ".rpt">>, <<"Timing", ".rpt">>, <<"timing", ".txt">>,
     <<"timing", ".rpt", ".bak">>}

ReportsDirs ==
    UNION {{d \in [S -> UNION {ContentsFor(n) : n \in S}] :
                \A n \in S : d[n] \in ContentsFor(n)} :
           S \in {S \in SUBSET FileNames : Cardinality(S) <= MaxFiles}}

\* datetime.now().isoformat(): the clock is read once in a run
Timestamps == {"2024-05-01T10:00:00.000001"}

(***************************************************************************)
(* _generate_html_dashboard: the metric tiles of the last report of each   *)
(* category, saved as dashboard.html.  A tile is its label, the value      *)
(* shown and the CSS class of the value.                                   *)
(***************************************************************************)
PassBelow == 80
WarningBelow == 95

Tile(label, value, class) ==
    [label |-> label, value |-> value, class |-> class]

slack_class_positive(w) ==
    IF ~Less(w, 0) /\ ~Equals(w, 0) THEN "pass" ELSE "fail"

slack_class(w) == IF ~Less(w, 0) THEN "pass" ELSE "fail"

eps_class(f) == IF Equals(f, 0) THEN "pass" ELSE "fail"

util_class_inclusive(util_pct) ==
    IF Less(util_pct, PassBelow) \/ Equals(util_pct, PassBelow) THEN "pass"
    ELSE IF Less(util_pct, WarningBelow) \/ Equals(util_pct, WarningBelow)
    THEN "warning"
    ELSE "fail"

util_class(util_pct) ==
    IF Less(util_pct, PassBelow) THEN "pass"
    ELSE IF Less(util_pct, WarningBelow) THEN "warning"
    ELSE "fail"

TimingTiles(timing) ==
    IF timing.items = <<>> THEN <<>>
    ELSE LET latest_timing == Latest(timing)
             wns == Get(latest_timing, "wns")
             tns == Get(latest_timing, "tns")
             failing_eps == Get(latest_timing, "failing_endpoints")
         IN <<Tile("Worst Negative Slack", wns, slack_class(wns)),
              Tile("Total Negative Slack", tns, slack_class(tns)),
              Tile("Failing Endpoints", failing_eps, eps_class(failing_eps))>>

RECURSIVE UtilTiles(_, _)
UtilTiles(latest_util, i) ==
    IF i > Len(ResourceNames) THEN <<>>
    ELSE LET resource == ResourceNames[i]
             util_pct == Get(Get(latest_util, resource), "utilization")
         IN (IF HasKey(latest_util, resource)
             THEN <<Tile(resource, util_pct, util_class(util_pct))>>
             ELSE <<>>) \o UtilTiles(latest_util, i + 1)

PowerTiles(power) ==
    IF power.items = <<>> THEN <<>>
    ELSE LET latest_power == Latest(power) IN
         <<Tile("Total Power", Get(latest_power, "total_power"), ""),
           Tile("Dynamic Power", Get(latest_power, "dynamic_power"), ""),
           Tile("Static Power", Get(latest_power, "static_power"), "")>>

generate_html_dashboard(res) ==
    LET timing == Get(res, "timing") IN
    IF /\ timing.items # <<>>
       /\ \E f \in {"wns", "tns"} : Get(Latest(timing), f) = None
    THEN Failed("TypeError")
    ELSE Saved([timestamp |-> Get(res, "timestamp").s,
                timing |-> TimingTiles(timing),
                utilization |->
                    IF Get(res, "utilization").items = <<>> THEN <<>>
                    ELSE UtilTiles(Latest(Get(res, "utilization")), 1),
                power |-> PowerTiles(Get(res, "power"))])

(***************************************************************************)
(* save_results_json: json.dump, as the sequence of tokens of the document *)
(* (the indentation between them left out), and json.load of it.  repr of  *)
(* a float is its shortest decimal form, with ".0" for a whole number; the *)
(* exponent form repr takes below 1e-4 and from 1e16 on is not modelled.   *)
(***************************************************************************)
Tok(j, s) == [j |-> j, s |-> s]
Punct(c) == Tok("punct", c)

RECURSIVE NatChars(_)
NatChars(n) ==
    IF n < 10 THEN <<DigitChar(n)>>
    ELSE NatChars(n \div 10) \o <<DigitChar(n % 10)>>

\* the last w digits of n, zeros kept
RECURSIVE PadChars(_, _)
PadChars(n, w) ==
    IF w = 0 THEN <<>> ELSE PadChars(n \div 10, w - 1) \o <<DigitChar(n % 10)>>

Abs(n) == IF n < 0 THEN -n ELSE n
Sign(n) == IF n < 0 THEN <<"-">> ELSE <<>>

int_repr(v) == Sign(v.m) \o NatChars(Abs(v.m))

float_repr_truncated(v) == Sign(v.m) \o NatChars(Abs(v.m) \div Pow10(v.e))

float_repr(v) ==
    Sign(v.m) \o NatChars(Abs(v.m) \div Pow10(v.e)) \o <<".">>
        \o (IF v.e = 0 THEN <<"0">> ELSE PadChars(Abs(v.m) % Pow10(v.e), v.e))

RECURSIVE json_dumps(_)
RECURSIVE dump_items(_, _)
dump_items(items, i) ==
    IF i > Len(items) THEN <<>>
    ELSE (IF i > 1 THEN <<Punct(",")>> ELSE <<>>)
           \o <<Tok("string", items[i].k), Punct(":")>>
           \o json_dumps(items[i].v) \o dump_items(items, i + 1)

json_dumps(v) ==
    CASE v.t = "None" -> <<Tok("literal", "null")>>
      [] v.t = "int" -> <<Tok("number", int_repr(v))>>
      [] v.t = "float" -> <<Tok("number", float_repr(v))>>
      [] v.t = "str" -> <<Tok("string", v.s)>>
      [] v.t = "dict" ->
           <<Punct("{")>> \o dump_items(v.items, 1) \o <<Punct("}")>>

IsPunct(tok, c) == tok.j = "punct" /\ tok.s = c

\* the value that starts at token i, and the position after it
RECURSIVE load_value(_, _)
RECURSIVE load_members(_, _, _)
load_members(toks, i, acc) ==
    IF IsPunct(toks[i], "}") THEN [v |-> acc, next |-> i + 1]
    ELSE LET j == IF IsPunct(toks[i], ",") THEN i + 1 ELSE i
             member == load_value(toks, j + 2)
         IN load_members(toks, member.next,
                         DictSet(acc, toks[j].s, member.v))

load_value(toks, i) ==
    CASE toks[i].j = "literal" -> [v |-> None, next |-> i + 1]
      [] toks[i].j = "number" ->
           [v |-> IF Count(toks[i].s, ".") > 0 THEN py_float(toks[i].s)
                  ELSE py_int(toks[i].s),
            next |-> i + 1]
      [] toks[i].j = "string" -> [v |-> PyStr(toks[i].s), next |-> i + 1]
      [] toks[i].j = "punct" -> load_members(toks, i + 1, PyDict(<<>>))

json_loads(toks) == load_value(toks, 1).v

save_results_json(res) == json_dumps(res)

(***************************************************************************)
(* main: analyze_all_reports, the four steps of                            *)
(* generate_performance_dashboard, save_results_json when a JSON path is   *)
(* given, then the two lines printed.  An exception ends the run where it  *)
(* is raised: pc stays there and error names it.                           *)
(***************************************************************************)
main_next_json_first(stage, json) ==
    CASE stage = "analyze" -> IF json THEN "save_json" ELSE "plot_timing"
      [] stage = "save_json" -> "plot_timing"
      [] stage = "plot_timing" -> "plot_utilization"
      [] stage = "plot_utilization" -> "plot_power"
      [] stage = "plot_power" -> "html"
      [] stage = "html" -> "print"
      [] stage = "print" -> "done"

\* the step after a step that returned
main_next(stage, json) ==
    CASE stage = "analyze" -> "plot_timing"
      [] stage = "plot_timing" -> "plot_utilization"
      [] stage = "plot_utilization" -> "plot_power"
      [] stage = "plot_power" -> "html"
      [] stage = "html" -> IF json THEN "save_json" ELSE "print"
      [] stage = "save_json" -> "print"
      [] stage = "print" -> "done"

Running(stage) == pc = stage /\ error = "none"

\* a step of the renderer ends: the file it saved, if any, and where main is
Render(stage, file, out) ==
    /\ written' = IF out.saved THEN written @@ (file :> out.body) ELSE written
    /\ error' = out.exc
    /\ pc' = IF out.exc = "none" THEN main_next(stage, json_output) ELSE pc
    /\ UNCHANGED <<parseVars, reports_dir, json_output, results, printed>>

\* analyze_all_reports ends: the results, or the exception that ends the run
Analyzed(out) ==
    /\ results' = out.ret
    /\ error' = out.exc
    /\ pc' = IF out.exc = "none" THEN main_next("analyze", json_output) ELSE pc

AnalyzeAllReports ==
    /\ Running("analyze")
    /\ \E now \in Timestamps,
          timing_files \in Orders(glob(reports_dir, "timing")),
          util_files \in Orders(glob(reports_dir, "utilization")),
          power_files \in Orders(glob(reports_dir, "power")) :
          Analyzed(analyze_all_reports(reports_dir, now, timing_files,
                                       util_files, power_files))
    /\ UNCHANGED <<parseVars, reports_dir, json_output, written, printed>>

PlotTimingAnalysis ==
    /\ Running("plot_timing")
    /\ Render("plot_timing", "timing_analysis.png",
              plot_timing_analysis(Get(results, "timing")))

PlotUtilization ==
    /\ Running("plot_utilization")
    /\ \E pie_raises \in BOOLEAN :
           Render("plot_utilization", "utilization.png",
                  plot_utilization(Get(results, "utilization"), pie_raises))

PlotPowerAnalysis ==
    /\ Running("plot_power")
    /\ \E pie_raises \in BOOLEAN :
           Render("plot_power", "power_analysis.png",
                  plot_power_analysis(Get(results, "power"), pie_raises))

GenerateHtmlDashboard ==
    /\ Running("html")
    /\ Render("html", "dashboard.html", generate_html_dashboard(results))

SaveResultsJson ==
    /\ Running("save_json")
    /\ written' = written @@ ("results.json" :> save_results_json(results))
    /\ pc' = main_next("save_json", json_output)
    /\ UNCHANGED <<parseVars, reports_dir, json_output, results, printed,
                   error>>

PrintSuccess ==
    /\ Running("print")
    /\ printed' = <<"Dashboard generated in", "Open dashboard.html">>
    /\ pc' = main_next("print", json_output)
    /\ UNCHANGED <<parseVars, reports_dir, json_output, results, written,
                   error>>

Next ==
    \/ AnalyzeAllReports
    \/ PlotTimingAnalysis
    \/ PlotUtilization
    \/ PlotPowerAnalysis
    \/ GenerateHtmlDashboard
    \/ SaveResultsJson
    \/ PrintSuccess

Init ==
    /\ which = "none"
    /\ content = <<>>
    /\ parsed = Pending
    /\ reports_dir \in ReportsDirs
    /\ json_output \in BOOLEAN
    /\ pc = "analyze"
    /\ results = None
    /\ written = <<>>
    /\ printed = <<>>
    /\ error = "none"

Spec == Init /\ [][Next]_vars

(***************************************************************************)
(* The parsing specification: one report text, drawn from the texts of its *)
(* category up to the bound, is given to the category's parser.            *)
(***************************************************************************)
Categories == {"timing", "utilization", "power"}

TimingAlphabet ==
    {"WNS(ns):", "TNS(ns):", "Failing Endpoints:", " ", "-", ".", "5", "0"}
PowerAlphabet ==
    {"Total On-Chip Power (W)", "Dynamic (W)", "|", " ", "-", ".", "5"}
\* a utilization text is made of chunks: a row label or a table cell
UtilChunks ==
    {<<"CLB LUTs">>, <<"DSPs">>, <<" ", "|", " ", "5", "0">>,
     <<"|", "2", ".", "5">>, <<"|", ".">>}

SeqsUpTo(S, n) == UNION {[1..k -> S] : k \in 0..n}

RECURSIVE Flatten(_)
Flatten(chunks) ==
    IF chunks = <<>> THEN <<>> ELSE Head(chunks) \o Flatten(Tail(chunks))

Texts(category) ==
    CASE category = "timing" -> SeqsUpTo(TimingAlphabet, MaxLen)
      [] category = "power" -> SeqsUpTo(PowerAlphabet, MaxLen)
      [] category = "utilization" ->
           {Flatten(cs) : cs \in SeqsUpTo(UtilChunks, MaxChunks)}

\* the variables of main, at rest while a parser is studied alone
MainIdle ==
    /\ reports_dir = <<>>
    /\ json_output = FALSE
    /\ pc = "idle"
    /\ results = None
    /\ written = <<>>
    /\ printed = <<>>
    /\ error = "none"

ParseInit ==
    /\ which \in Categories
    /\ content \in Texts(which)
    /\ parsed = Pending
    /\ MainIdle

ParseTiming ==
    /\ which = "timing"
    /\ parsed = Pending
    /\ parsed' = parse_timing_report(content)
    /\ UNCHANGED <<which, content, mainVars>>

ParseUtilization ==
    /\ which = "utilization"
    /\ parsed = Pending
    /\ parsed' = parse_utilization_report(content)
    /\ UNCHANGED <<which, content, mainVars>>

ParsePower ==
    /\ which = "power"
    /\ parsed = Pending
    /\ parsed' = parse_power_report(content)
    /\ UNCHANGED <<which, content, mainVars>>

ParseNext == ParseTiming \/ ParseUtilization \/ ParsePower

SpecParse == ParseInit /\ [][ParseNext]_vars

(***************************************************************************)
(* What the claims about the parsers speak of.                             *)
(***************************************************************************)
\* d[path[1]][path[2]]...
RECURSIVE GetPath(_, _)
GetPath(d, path) ==
    IF path = <<>> THEN d ELSE GetPath(Get(d, Head(path)), Tail(path))

\* class: the characters the field's group is made of
Field(path, label, pat, group, class, default) ==
    [path |-> path, label |-> label, pat |-> pat, group |-> group,
     class |-> class, default |-> default]

ResourceFields(name, label) ==
    {Field(<<name, "used">>, label, RowPattern(label), 1, Digits, PyInt(0)),
     Field(<<name, "available">>, label, RowPattern(label), 2, Digits, PyInt(0)),
     Field(<<name, "utilization">>, label, RowPattern(label), 3, RealChars, PyInt(0))}

\* the fields read from the text: where each is stored, the label it is
\* read after, and its documented default
Fields(category) ==
    CASE category = "timing" ->
           {Field(<<"wns">>, "WNS(ns):", SlackPattern("WNS(ns):"), 1,
                  SlackChars, None),
            Field(<<"tns">>, "TNS(ns):", SlackPattern("TNS(ns):"), 1,
                  SlackChars, None),
            Field(<<"whs">>, "WHS(ns):", SlackPattern("WHS(ns):"), 1,
                  SlackChars, None),
            Field(<<"failing_endpoints">>, "Failing Endpoints:",
                  EndpointsPattern, 1, Digits, PyInt(0))}
      [] category = "utilization" ->
           ResourceFields("lut", "CLB LUTs")
             \cup ResourceFields("ff", "CLB Registers")
             \cup ResourceFields("bram", "Block RAM Tile")
             \cup ResourceFields("dsp", "DSPs")
      [] category = "power" ->
           {Field(<<"total_power">>, "Total On-Chip Power (W)",
                  PowerPattern("Total On-Chip Power (W)"), 1, RealChars,
                  PyInt(0)),
            Field(<<"dynamic_power">>, "Dynamic (W)",
                  PowerPattern("Dynamic (W)"), 1, RealChars, PyInt(0)),
            Field(<<"static_power">>, "Device Static (W)",
                  PowerPattern("Device Static (W)"), 1, RealChars, PyInt(0))}

\* the fixed shape of a category's record
ResourceKeys == <<"used", "available", "utilization">>
HasShape(category, rec) ==
    /\ rec.t = "dict"
    /\ CASE category = "timing" ->
              Keys(rec) = <<"wns", "tns", "whs", "ths", "failing_endpoints">>
         [] category = "utilization" ->
              /\ Keys(rec) = <<"lut", "ff", "bram", "dsp">>
              /\ \A i \in 1..4 : /\ Values(rec)[i].t = "dict"
                                 /\ Keys(Values(rec)[i]) = ResourceKeys
         [] category = "power" ->
              Keys(rec) = <<"total_power", "dynamic_power", "static_power",
                            "confidence">>

LabelAbsent(label, text) == \A i \in 1..Len(text) : text[i] # label

\* the characters a field's pattern captures in the text; <<>> when the
\* pattern does not match
Captured(f, text) ==
    LET m == re_search(f.pat, text) IN
    IF m.ok THEN m.groups[f.group] ELSE <<>>

\* a pattern of the category matches and what it captures is no number
Malformed(category, text) ==
    \E f \in Fields(category) :
        /\ Captured(f, text) # <<>>
        /\ ~FloatConvertible(Captured(f, text))

DefaultsWhereAbsent ==
    /\ parsed.exc = "none"
    /\ HasShape(which, parsed.ret)
    /\ \A f \in Fields(which) :
           LabelAbsent(f.label, content)
               => GetPath(parsed.ret, f.path) = f.default

\* C1 as stated: for every report text the parser returns a record of the
\* full fixed shape, without raising, in which every field whose label is
\* absent from the text has its documented default.
C1_EveryTextYieldsRecord == parsed # Pending => DefaultsWhereAbsent

\* C1, amended: for every report text in which no pattern matches with a
\* capture that is no number, the parser returns a record of the full fixed
\* shape, without raising, in which every field whose label is absent from
\* the text has its documented default.
C1_DefaultsUnlessMalformed ==
    (parsed # Pending /\ ~Malformed(which, content)) => DefaultsWhereAbsent

\* a timing text with a TNS value and no WNS label has been parsed
C1_Witness ==
    /\ which = "timing"
    /\ parsed.exc = "none"
    /\ LabelAbsent("WNS(ns):", content)
    /\ Get(parsed.ret, "wns") = None
    /\ Get(parsed.ret, "tns") = PyFloat(-5, 1)

\* C3: in every parser, when a pattern matches the text and the captured
\* characters are no convertible number (such as '-' or '.' after a timing
\* label, '.' after a power label, '5..' anywhere), the parse ends with the
\* error raised to the caller: no record is returned, no default is kept.
C3_MalformedIsFatal ==
    parsed # Pending =>
        /\ Malformed(which, content) => parsed.exc = "ValueError"
        /\ \A f \in Fields(which) :
               Captured(f, content) \in {<<"-">>, <<".">>, <<"5", ".", ".">>}
                   => (parsed.exc = "ValueError" /\ parsed.ret = None)

\* a power text whose total-power cell is a lone '.' has been parsed
C3_Witness ==
    /\ which = "power"
    /\ parsed.exc = "ValueError"
    /\ \E f \in Fields("power") :
           f.path = <<"total_power">> /\ Captured(f, content) = <<".">>

(***************************************************************************)
(* The literal number that follows a label, read as a reader of the report *)
(* reads it: an optional minus sign, digits, and a point only if digits    *)
(* follow it (or a point followed by digits); as long as possible.         *)
(***************************************************************************)
At(text, i) == IF i <= Len(text) THEN text[i] ELSE "<end>"

\* the position after the literal that starts at i; i when none starts there
LiteralEnd(text, i) ==
    LET j == IF At(text, i) = "-" THEN i + 1 ELSE i
        k == RunEnd(text, j, Digits)
        fraction == At(text, k) = "." /\ At(text, k + 1) \in Digits
    IN IF k > j THEN (IF fraction THEN RunEnd(text, k + 1, Digits) ELSE k)
       ELSE IF fraction THEN RunEnd(text, k + 1, Digits)
       ELSE i

FirstIndex(text, tok) ==
    CHOOSE i \in 1..Len(text) :
        text[i] = tok /\ \A j \in 1..(i - 1) : text[j] # tok

\* the position after blanks, a pipe and blanks from a on; 0 when no pipe
\* is there (or a is 0 already)
AfterPipe(text, a) ==
    LET b == RunEnd(text, a, Space) IN
    IF a > 0 /\ At(text, b) = "|" THEN RunEnd(text, b + 1, Space) ELSE 0

\* the position after the number that starts at a; 0 when none starts there
AfterNumber(text, a) ==
    IF a > 0 /\ LiteralEnd(text, a) > a THEN LiteralEnd(text, a) ELSE 0

\* where the value of a field starts, 0 when the text has no value there:
\* a timing value after the label and blanks, a power value after the label
\* and a pipe, the values of a utilization row in its first, third and
\* fourth cell, each cell holding a number
ValueStart(category, text, f) ==
    LET l == FirstIndex(text, f.label) + 1
        c1 == AfterPipe(text, l)
        c2 == AfterPipe(text, AfterNumber(text, c1))
        c3 == AfterPipe(text, AfterNumber(text, c2))
        c4 == AfterPipe(text, AfterNumber(text, c3))
    IN CASE category = "timing" -> RunEnd(text, l, Space)
         [] category = "power" -> c1
         [] category = "utilization" ->
              IF AfterNumber(text, c4) = 0 THEN 0
              ELSE IF f.group = 1 THEN c1 ELSE IF f.group = 2 THEN c3 ELSE c4

\* the label is in the text and a literal number follows its first occurrence
LabelThenNumber(category, text, f) ==
    /\ ~LabelAbsent(f.label, text)
    /\ AfterNumber(text, ValueStart(category, text, f)) > 0

\* the characters of that number
Literal(category, text, f) ==
    LET a == ValueStart(category, text, f) IN
    SubSeq(text, a, LiteralEnd(text, a) - 1)

IsFloatField(f) == f.class # Digits

NumberAfter(category, text, f) ==
    IF IsFloatField(f) THEN py_float(Literal(category, text, f))
    ELSE py_int(Literal(category, text, f))

\* every other field's pattern captures a number or nothing
OthersWellFormed(category, text, f) ==
    \A g \in Fields(category) \ {f} :
        Captured(g, text) = <<>> \/ FloatConvertible(Captured(g, text))

Extracted(f) ==
    /\ parsed.exc = "none"
    /\ GetPath(parsed.ret, f.path) = NumberAfter(which, content, f)

WholeCounts(text, label) ==
    LET c1 == AfterPipe(text, FirstIndex(text, label) + 1)
        c2 == AfterPipe(text, AfterNumber(text, c1))
        c3 == AfterPipe(text, AfterNumber(text, c2))
    IN \A c \in {c1, c2, c3} :
           \A i \in c..(LiteralEnd(text, c) - 1) : text[i] \in Digits

\* the number is one the field's pattern takes whole: signed only for a
\* slack, whole for a count, and not run into by a further '-', '.' or digit
\* (a count: by a further digit)
TakenWhole(category, text, f) ==
    LET lit == Literal(category, text, f)
        a == ValueStart(category, text, f)
    IN /\ \A i \in 1..Len(lit) : lit[i] \in f.class
       /\ At(text, LiteralEnd(text, a)) \notin f.class
       /\ category = "utilization" => WholeCounts(text, f.label)

Scanned == results # None
Mapping(category) == Get(results, category)
IsWritten(file) == file \in DOMAIN written

ChartOf(category) ==
    CASE category = "timing" -> "timing_analysis.png"
      [] category = "utilization" -> "utilization.png"
      [] category = "power" -> "power_analysis.png"

StageOf(category) ==
    CASE category = "timing" -> "plot_timing"
      [] category = "utilization" -> "plot_utilization"
      [] category = "power" -> "plot_power"

\* the name test of a category: the keyword is in the name, as written,
\* and the name ends in .rpt
NameTest(name, category) ==
    /\ name[Len(name)] = ".rpt"
    /\ \E i \in 1..Len(name) : name[i] = category

ReportsOf(category) == {n \in DOMAIN reports_dir : NameTest(n, category)}

SlackLabels == {"WNS(ns):", "TNS(ns):", "WHS(ns):"}

\* C2: when a timing report of the directory lacks the WNS, TNS or WHS
\* label (every report being otherwise well formed, and no pie chart being
\* drawn), the run does not end with an error, and once it is past the
\* renderer dashboard.html is written.
C2_MissingSlackIsNonFatal ==
    (/\ \E n \in ReportsOf("timing") :
            \E l \in SlackLabels : LabelAbsent(l, reports_dir[n])
     /\ \A n \in ReportsOf("timing") : ~Malformed("timing", reports_dir[n])
     /\ ReportsOf("utilization") = {} /\ ReportsOf("power") = {})
    => /\ error = "none"
       /\ pc \in {"save_json", "print", "done"} => IsWritten("dashboard.html")

\* C5: a category's chart file is written only if the category's mapping is
\* not empty; no step ends the run over an empty category; and for an empty
\* directory all three mappings are empty, the run goes on without an error
\* to its end, no chart file is written and dashboard.html is written with
\* no tile in any section.
C5_EmptyCategorySkipped ==
    /\ \A c \in Categories :
           /\ IsWritten(ChartOf(c)) => (Scanned /\ Mapping(c).items # <<>>)
           /\ (error # "none" /\ pc = StageOf(c)) => Mapping(c).items # <<>>
    /\ (error # "none" /\ pc = "html") => Mapping("timing").items # <<>>
    /\ DOMAIN reports_dir = {} =>
           /\ error = "none"
           /\ pc # "done" => ENABLED Next
           /\ Scanned => \A c \in Categories : Mapping(c).items = <<>>
           /\ \A c \in Categories : ~IsWritten(ChartOf(c))
           /\ pc \in {"save_json", "print", "done"} =>
                  /\ IsWritten("dashboard.html")
                  /\ written["dashboard.html"].timing = <<>>
                  /\ written["dashboard.html"].utilization = <<>>
                  /\ written["dashboard.html"].power = <<>>

\* the run over an empty directory has ended: only the page is written
C5_Witness ==
    /\ DOMAIN reports_dir = {}
    /\ pc = "done"
    /\ DOMAIN written = {"dashboard.html"}
    /\ written["dashboard.html"].timing = <<>>

\* C6: after analyze_all_reports has returned, each category's mapping has
\* exactly one entry per file of the directory that passes the category's
\* name test, under the file's stem, holding what the category's parser
\* returns for the file's text; no other file has an entry.
C6_OneEntryPerReport ==
    Scanned =>
        \A c \in Categories :
            LET items == Mapping(c).items IN
            /\ Len(items) = Cardinality(ReportsOf(c))
            /\ \A n \in ReportsOf(c) :
                   \E i \in 1..Len(items) :
                       /\ items[i].k = SubSeq(n, 1, Len(n) - 1)
                       /\ items[i].v = Parser(c, reports_dir[n]).ret
            /\ \A i \in 1..Len(items) :
                   \E n \in ReportsOf(c) : items[i].k = SubSeq(n, 1, Len(n) - 1)

\* two timing reports, one of them a power report too, next to a file that
\* passes no name test, have been scanned
C6_Witness ==
    /\ Scanned
    /\ Len(Mapping("timing").items) = 2
    /\ Len(Mapping("power").items) = 1
    /\ \E n \in DOMAIN reports_dir : \A c \in Categories : ~NameTest(n, c)

Negative(v) == v.m < 0
Zero(v) == v.m = 0

\* 10^e * n, to compare a float m * 10^-e with the integer n
Scaled(v, n) == n * Pow10(IF v.t = "float" THEN v.e ELSE 0)

\* C7: the class of a utilization tile of the page is pass below 80,
\* warning from 80 to below 95, fail from 95 on; 80 is warning, 95 is fail.
C7_UtilizationClasses ==
    IsWritten("dashboard.html") =>
        \A i \in 1..Len(written["dashboard.html"].utilization) :
            LET tile == written["dashboard.html"].utilization[i]
                pct == tile.value
            IN /\ tile.class \in {"pass", "warning", "fail"}
               /\ tile.class = "pass" <=> pct.m < Scaled(pct, 80)
               /\ tile.class = "warning" <=>
                      (pct.m >= Scaled(pct, 80) /\ pct.m < Scaled(pct, 95))
               /\ tile.class = "fail" <=> pct.m >= Scaled(pct, 95)
               /\ pct.m = Scaled(pct, 80) => tile.class = "warning"
               /\ pct.m = Scaled(pct, 95) => tile.class = "fail"

\* the page shows 79.9, 80, 94.9 and 95 percent
C7_Witness ==
    /\ IsWritten("dashboard.html")
    /\ Len(written["dashboard.html"].utilization) = 4
    /\ [i \in 1..4 |-> written["dashboard.html"].utilization[i].value]
           = <<PyFloat(799, 1), PyFloat(80, 0), PyFloat(949, 1), PyFloat(95, 0)>>
    /\ [i \in 1..4 |-> written["dashboard.html"].utilization[i].class]
           = <<"pass", "warning", "warning", "fail">>

\* C8: the JSON document of every AggregatedResult, parsed again, is the
\* result itself, field by field; and the document main writes parses to
\* the results of the run.
C8_JsonRoundTrip ==
    /\ Scanned => json_loads(save_results_json(results)) = results
    /\ IsWritten("results.json") => json_loads(written["results.json"]) = results

\* a document with a timing report (a negative slack, a null ths) and a
\* utilization report has been written
C8_Witness ==
    /\ IsWritten("results.json")
    /\ \E i \in 1..Len(Mapping("timing").items) :
           /\ Negative(Get(Mapping("timing").items[i].v, "wns"))
           /\ Get(Mapping("timing").items[i].v, "ths") = None
    /\ Mapping("utilization").items # <<>>

SlackShown(value, mark, bad, good) ==
    /\ value # None
    /\ mark = IF Negative(value) THEN bad ELSE good
    /\ Zero(value) => mark = good

CountShown(value, mark, bad, good) ==
    mark = IF Zero(value) THEN good ELSE bad

\* C9: every slack the dashboard shows (the WNS and TNS tiles of the page,
\* the WNS, TNS and WHS bars of the timing chart) is red or fail exactly if
\* it is negative and green or pass otherwise, 0 being green; a count of
\* failing endpoints is red or fail exactly if it is not zero.
C9_SlackColours ==
    /\ IsWritten("dashboard.html") =>
           LET tiles == written["dashboard.html"].timing IN
           tiles # <<>> =>
               /\ SlackShown(tiles[1].value, tiles[1].class, "fail", "pass")
               /\ SlackShown(tiles[2].value, tiles[2].class, "fail", "pass")
               /\ CountShown(tiles[3].value, tiles[3].class, "fail", "pass")
    /\ IsWritten("timing_analysis.png") =>
           LET chart == written["timing_analysis.png"] IN
           \A i \in 1..Len(chart.wns) :
               /\ SlackShown(chart.wns[i].value, chart.wns[i].color,
                             "red", "green")
               /\ SlackShown(chart.tns[i].value, chart.tns[i].color,
                             "red", "green")
               /\ SlackShown(chart.whs[i].value, chart.whs[i].color,
                             "red", "green")
               /\ CountShown(chart.failing_endpoints[i].value,
                             chart.failing_endpoints[i].color, "red", "green")

\* the page shows a negative WNS, a TNS of 0 and three failing endpoints
C9_Witness ==
    /\ IsWritten("dashboard.html")
    /\ IsWritten("timing_analysis.png")
    /\ written["dashboard.html"].timing
           = <<Tile("Worst Negative Slack", PyFloat(-5, 1), "fail"),
               Tile("Total Negative Slack", PyFloat(0, 0), "pass"),
               Tile("Failing Endpoints", PyInt(3), "fail")>>

\* C10: the JSON document is written only when a JSON path is given and
\* after the renderer has written the page without an error; a run that
\* ends with an error has written no JSON document and printed nothing; and
\* the success lines are printed only when the page, the chart of every
\* category that has a report, and the JSON document if asked for, are
\* written.
C10_JsonAfterDashboard ==
    /\ IsWritten("results.json") =>
           json_output /\ error = "none" /\ IsWritten("dashboard.html")
    /\ error # "none" => ~IsWritten("results.json") /\ printed = <<>>
    /\ printed # <<>> =>
           /\ IsWritten("dashboard.html")
           /\ json_output => IsWritten("results.json")
           /\ \A c \in Categories :
                  Mapping(c).items # <<>> => IsWritten(ChartOf(c))

\* a run asked for the JSON document has printed its success lines
C10_Witness ==
    /\ pc = "done"
    /\ printed # <<>>
    /\ IsWritten("results.json")
    /\ IsWritten("timing_analysis.png")

====
